---- MODULE Spec2Model ----
(***************************************************************************)
(* Auto-merge policy evaluator of sdm-pack-rcca-bitbucket                  *)
(* (src/lib/automerge/autoMerge.ts, the variant with label markers,        *)
(* lines 224-451).                                                         *)
(*                                                                         *)
(* One evaluation of executeAutoMerge is modelled as the synchronous part  *)
(* of the handler up to its first await, followed by the settlement        *)
(* (fulfilment or rejection) of each awaited provider call.                *)
(*                                                                         *)
(* Strings are TLA+ strings; an absent (null/undefined) JavaScript value   *)
(* is the empty tuple None and a present value v is the 1-tuple Some(v).   *)
(***************************************************************************)
EXTENDS Integers, Sequences, FiniteSets, TLC

VARIABLES
    pr,      \* the PullRequest snapshot handed to executeAutoMerge (None = null)
    pc,      \* position of the evaluation: idle, awaitGet, awaitMerge, awaitComment, done
    calls,   \* provider calls issued by this evaluation, in order
    gpr,     \* the provider's answer to pullrequests.get (None until it answered)
    result,  \* what executeAutoMerge returned: none, Success, Failure (rejected promise)
    susp,    \* the other evaluation of the same snapshot, while it is not the one running
    merged   \* provider state: the pull request has been merged

\* pc, calls, gpr and result are those of the running evaluation; its number is CurId
vars == <<pr, pc, calls, gpr, result, susp, merged>>

CurId == 3 - susp.id

----------------------------------------------------------------------------
(* Bounds of the model *)

MaxReviews == 2
MaxBuilds == 2

----------------------------------------------------------------------------
(* Optional values *)

None == <<>>
Some(v) == <<v>>
IsNone(o) == Len(o) = 0
IsSome(o) == Len(o) = 1
Val(o) == o[1]

SeqsUpTo(S, n) == UNION {[1..k -> S] : k \in 0..n}

----------------------------------------------------------------------------
(* Module constants of the source *)

AtomistGeneratedLabel == "atomist:generated"
AutoMergeLabel == "auto-merge:on-approve"
AutoMergeCheckSuccessLabel == "auto-merge:on-check-success"
AutoMergeTag == "[" \o AutoMergeLabel \o "]"
AutoMergeCheckSuccessTag == "[" \o AutoMergeCheckSuccessLabel \o "]"
AutoMergeMethodLabel == "auto-merge-method:"
AutoMergeMethods == <<"merge", "rebase", "squash">>

----------------------------------------------------------------------------
(* JavaScript string primitives used by the source *)

\* s.indexOf(t): the least 0-based position at which t occurs in s, else -1
indexOf(s, t) ==
    LET hits == {i \in 0..(Len(s) - Len(t)) : SubSeq(s, i + 1, i + Len(t)) = t}
    IN IF hits = {} THEN -1 ELSE CHOOSE i \in hits : \A j \in hits : i <= j

includes(s, t) == indexOf(s, t) >= 0

startsWith(s, t) == Len(s) >= Len(t) /\ SubSeq(s, 1, Len(t)) = t

\* s.split(":")[1] for a string s that contains ":": the text between the
\* first ":" and the next ":" (or the end of s)
splitSecond(s) ==
    LET rest == SubSeq(s, indexOf(s, ":") + 2, Len(s))
        nxt == indexOf(rest, ":")
    IN IF nxt < 0 THEN rest ELSE SubSeq(rest, 1, nxt)

lowerChar(c) ==
    CASE c = "A" -> "a" [] c = "B" -> "b" [] c = "C" -> "c" [] c = "D" -> "d"
      [] c = "E" -> "e" [] c = "F" -> "f" [] c = "G" -> "g" [] c = "H" -> "h"
      [] c = "I" -> "i" [] c = "J" -> "j" [] c = "K" -> "k" [] c = "L" -> "l"
      [] c = "M" -> "m" [] c = "N" -> "n" [] c = "O" -> "o" [] c = "P" -> "p"
      [] c = "Q" -> "q" [] c = "R" -> "r" [] c = "S" -> "s" [] c = "T" -> "t"
      [] c = "U" -> "u" [] c = "V" -> "v" [] c = "W" -> "w" [] c = "X" -> "x"
      [] c = "Y" -> "y" [] c = "Z" -> "z" [] OTHER -> c

RECURSIVE toLowerCase(_)
toLowerCase(s) ==
    IF Len(s) = 0 THEN ""
    ELSE lowerChar(SubSeq(s, 1, 1)) \o toLowerCase(SubSeq(s, 2, Len(s)))

RECURSIVE join(_, _)
join(strs, sep) ==
    IF Len(strs) = 0 THEN ""
    ELSE IF Len(strs) = 1 THEN strs[1]
    ELSE strs[1] \o sep \o join(Tail(strs), sep)

----------------------------------------------------------------------------
(* The PullRequest snapshots the event adapters may hand over *)

Comment(b) == [body |-> b]
Commit(m) == [message |-> m]
Label(n) == [name |-> n]
Build(s) == [status |-> s]
Review(s, c, b) == [state |-> s, comments |-> c, by |-> b]

BuildStatuses == {"passed", "failed"}

Titles ==
    { None, Some(""), Some("Fix [auto-merge:on-approve] now"),
      Some("[AUTO-MERGE:ON-APPROVE]") }

Bodies == { None, Some("Please [auto-merge:on-check-success]") }

LabelLists ==
    { None, Some(<<>>),
      Some(<<Label("bug")>>),
      Some(<<Label("bug"), Label(AutoMergeLabel)>>),
      Some(<<Label(AutoMergeCheckSuccessLabel)>>),
      Some(<<Label(AutoMergeLabel), Label("auto-merge-method:squash")>>),
      Some(<<Label(AutoMergeLabel), Label("auto-merge-method:rebase-bogus")>>),
      Some(<<Label(AutoMergeLabel), Label("auto-merge-method:fast-forward")>>),
      Some(<<Label(AutoMergeCheckSuccessLabel), Label("auto-merge-method:rebase")>>),
      Some(<<Label("auto-merge-method:SQUASH"), Label(AutoMergeLabel)>>),
      Some(<<Label("auto-merge-method:bogus"), Label("auto-merge-method:squash")>>),
      Some(<<Label("auto-merge-method:squash"), Label("auto-merge-method:bogus")>>),
      Some(<<Label("auto-merge-method:merge-commit"), Label(AutoMergeCheckSuccessLabel)>>) }

CommentLists ==
    { None,
      Some(<<Comment(None), Comment(Some("lgtm"))>>),
      Some(<<Comment(Some("lgtm")), Comment(Some("ok [auto-merge:on-approve]"))>>) }

CommitLists ==
    { None,
      Some(<<Commit(Some("wip")), Commit(Some("done [auto-merge:on-check-success]"))>>) }

ReviewKinds ==
    { Review("approved", None, <<[login |-> "al"]>>),
      Review("changes_requested", None, <<[login |-> "bo"]>>),
      Review("approved", Some(<<Comment(Some("go [auto-merge:on-approve]"))>>),
             <<[login |-> "cy"], [login |-> "di"]>>) }

ReviewLists == {None} \cup {Some(s) : s \in SeqsUpTo(ReviewKinds, MaxReviews)}

BuildLists ==
    {None} \cup {Some(s) : s \in SeqsUpTo({Build(st) : st \in BuildStatuses}, MaxBuilds)}

\* the code reads head.builds for the gate and head.statuses for the comment
Heads ==
    {None} \cup UNION { {Some([builds |-> b, statuses |-> None]),
                         Some([builds |-> b, statuses |-> b])} : b \in BuildLists }

PullRequests ==
    [ title : Titles, body : Bodies, labels : LabelLists, comments : CommentLists,
      commits : CommitLists, reviews : ReviewLists, head : Heads ]

\* the snapshots that carry markers in labels and commit messages only
CoreSnapshots ==
    [ title : {None}, body : {None}, labels : LabelLists, comments : {None},
      commits : CommitLists, reviews : ReviewLists, head : Heads ]

----------------------------------------------------------------------------
(* Pure functions of the source *)

\* mutant: the comparison ignores case
isTagged_IgnoreCase(msg, tag) ==
    /\ IsSome(msg)
    /\ Val(msg) # ""
    /\ indexOf(toLowerCase(Val(msg)), toLowerCase(tag)) >= 0

\* msg && msg.indexOf(tag) >= 0
isTagged(msg, tag) ==
    /\ IsSome(msg)
    /\ Val(msg) # ""
    /\ indexOf(Val(msg), tag) >= 0

\* mutant: the commit messages are not scanned
isPrTagged_NoCommits(p, label, tag) ==
    \/ /\ IsSome(p.labels)
       /\ \E i \in DOMAIN Val(p.labels) : Val(p.labels)[i].name = label
    \/ isTagged(p.title, tag)
    \/ isTagged(p.body, tag)
    \/ /\ IsSome(p.comments)
       /\ \E i \in DOMAIN Val(p.comments) : isTagged(Val(p.comments)[i].body, tag)

isPrTagged(p, label, tag) ==
    \* 0. check labels
    \/ /\ IsSome(p.labels)
       /\ \E i \in DOMAIN Val(p.labels) : Val(p.labels)[i].name = label
    \* 1. check body and title for auto merge marker
    \/ isTagged(p.title, tag)
    \/ isTagged(p.body, tag)
    \* 2. PR comment that contains the merger
    \/ /\ IsSome(p.comments)
       /\ \E i \in DOMAIN Val(p.comments) : isTagged(Val(p.comments)[i].body, tag)
    \* 3. Commit message containing the auto merge marker
    \/ /\ IsSome(p.commits)
       /\ \E i \in DOMAIN Val(p.commits) : isTagged(Val(p.commits)[i].message, tag)

isPrAutoMergeEnabled(p) ==
    \/ isPrTagged(p, AutoMergeLabel, AutoMergeTag)
    \/ isPrTagged(p, AutoMergeCheckSuccessLabel, AutoMergeCheckSuccessTag)

\* mutant: the stub answers true
canBeMerged_AlwaysTrue(g) == TRUE

\* mutant: the provider's answer decides
canBeMerged_FromProvider(g) == g.mergeable

\* the provider's answer is ignored
canBeMerged(g) == FALSE

\* mutant: the last matching label is taken
methodLabel_Last(p) ==
    LET ls == Val(p.labels)
        hits == {i \in DOMAIN ls : startsWith(ls[i].name, AutoMergeMethodLabel)}
    IN IF hits = {} THEN None
       ELSE Some(ls[CHOOSE i \in hits : \A j \in hits : i >= j])

\* pr.labels.find(l => l.name.startsWith(AutoMergeMethodLabel)); labels present
methodLabel(p) ==
    LET ls == Val(p.labels)
        hits == {i \in DOMAIN ls : startsWith(ls[i].name, AutoMergeMethodLabel)}
    IN IF hits = {} THEN None
       ELSE Some(ls[CHOOSE i \in hits : \A j \in hits : i <= j])

\* defined when pr.labels is present; pr.labels.find throws a TypeError otherwise
mergeMethod(p) ==
    LET l == methodLabel(p)
    IN IF IsSome(l) /\ includes(Val(l).name, ":")
       THEN LET method == toLowerCase(splitSecond(Val(l).name))
            IN IF \E i \in DOMAIN AutoMergeMethods : AutoMergeMethods[i] = method
               THEN method
               ELSE "merge_commit"
       ELSE "merge_commit"

reviewComment(p) ==
    IF IsSome(p.reviews) /\ Len(Val(p.reviews)) > 0
    THEN LET rs == Val(p.reviews)
             n == Len(rs)
             logins(r) == join([i \in DOMAIN r.by |-> "@" \o r.by[i].login], ", ")
         IN ToString(n) \o " approved " \o (IF n > 1 THEN "reviews" ELSE "review")
              \o " by " \o join([i \in DOMAIN rs |-> logins(rs[i])], ", ")
    ELSE "No reviews"

statusComment(p) ==
    IF IsSome(p.head) /\ IsSome(Val(p.head).statuses) /\ Len(Val(Val(p.head).statuses)) > 0
    THEN LET n == Len(Val(Val(p.head).statuses))
         IN ToString(n) \o " successful " \o (IF n > 1 THEN "checks" ELSE "check")
    ELSE "No checks"

\* the comment posted after the merge
commentBody(p) ==
    "Pull request auto merged by Atomist.\n\n* " \o reviewComment(p)
      \o "\n* " \o statusComment(p) \o "\n\n[" \o AtomistGeneratedLabel \o "] ["
      \o (IF isPrTagged(p, AutoMergeCheckSuccessLabel, AutoMergeCheckSuccessTag)
          THEN AutoMergeCheckSuccessLabel ELSE AutoMergeLabel)
      \o "]"

\* mutant: only the presence of reviews is checked, not their state
reviewsNotApproved_OnlyEmpty(p) ==
    /\ isPrTagged(p, AutoMergeLabel, AutoMergeTag)
    /\ \/ IsNone(p.reviews)
       \/ Len(Val(p.reviews)) = 0

\* mutant: the reviews are not looked at when the check-success marker is present
reviewsNotApproved_UnlessCheckSuccess(p) ==
    /\ isPrTagged(p, AutoMergeLabel, AutoMergeTag)
    /\ ~isPrTagged(p, AutoMergeCheckSuccessLabel, AutoMergeCheckSuccessTag)
    /\ \/ IsNone(p.reviews)
       \/ Len(Val(p.reviews)) = 0
       \/ \E i \in DOMAIN Val(p.reviews) : Val(p.reviews)[i].state # "approved"

\* 1. at least one approved review if PR isn't set to merge on successful build:
\* TRUE when executeAutoMerge returns Success at this step
reviewsNotApproved(p) ==
    /\ isPrTagged(p, AutoMergeLabel, AutoMergeTag)
    /\ \/ IsNone(p.reviews)
       \/ Len(Val(p.reviews)) = 0
       \/ \E i \in DOMAIN Val(p.reviews) : Val(p.reviews)[i].state # "approved"

\* mutant: the else branch (no builds at all) is missing
buildsNotPassed_NoElse(p) ==
    /\ IsSome(p.head) /\ IsSome(Val(p.head).builds)
    /\ \E i \in DOMAIN Val(Val(p.head).builds) :
          Val(Val(p.head).builds)[i].status # "passed"

\* mutant: every instead of some
buildsNotPassed_Every(p) ==
    IF IsSome(p.head) /\ IsSome(Val(p.head).builds) /\ Len(Val(Val(p.head).builds)) > 0
    THEN \A i \in DOMAIN Val(Val(p.head).builds) :
            Val(Val(p.head).builds)[i].status # "passed"
    ELSE TRUE

\* 2. all build checks are successful and there is at least one check:
\* TRUE when executeAutoMerge returns Success at this step
buildsNotPassed(p) ==
    IF IsSome(p.head) /\ IsSome(Val(p.head).builds) /\ Len(Val(Val(p.head).builds)) > 0
    THEN \E i \in DOMAIN Val(Val(p.head).builds) :
            Val(Val(p.head).builds)[i].status # "passed"
    ELSE TRUE

----------------------------------------------------------------------------
(* The evaluation *)

Call(op, arg) == [op |-> op, arg |-> arg, outcome |-> "pending"]

\* the pending (last) call settled with outcome o
Settle(cs, o) == [cs EXCEPT ![Len(cs)].outcome = o]

Init ==
    /\ pr = None
    /\ pc = "idle"
    /\ calls = <<>>
    /\ gpr = None
    /\ result = "none"
    /\ susp = [id |-> 2, pc |-> "idle", calls |-> <<>>, gpr |-> None, result |-> "none"]
    /\ merged = FALSE

Return(r) ==
    /\ pc' = "done"
    /\ result' = r

\* mutant: the test `if (!!pr)` is missing, a null snapshot is dereferenced
executeAutoMerge_NoNullCheck(p) ==
    /\ pc = "idle"
    /\ pr' = p
    /\ gpr' = gpr
    /\ IF IsNone(p) THEN Return("Failure") /\ calls' = calls
       ELSE IF reviewsNotApproved(Val(p)) THEN Return("Success") /\ calls' = calls
       ELSE IF buildsNotPassed(Val(p)) THEN Return("Success") /\ calls' = calls
       ELSE IF isPrAutoMergeEnabled(Val(p))
            THEN /\ calls' = <<Call("get", "")>>
                 /\ pc' = "awaitGet"
                 /\ result' = result
       ELSE Return("Success") /\ calls' = calls

\* executeAutoMerge(p, creds) up to its first await or its return
executeAutoMerge(p) ==
    /\ pc = "idle"
    /\ pr' = p
    /\ gpr' = gpr
    /\ IF IsNone(p) THEN Return("Success") /\ calls' = calls
       ELSE IF reviewsNotApproved(Val(p)) THEN Return("Success") /\ calls' = calls
       ELSE IF buildsNotPassed(Val(p)) THEN Return("Success") /\ calls' = calls
       ELSE IF isPrAutoMergeEnabled(Val(p))
            THEN /\ calls' = <<Call("get", "")>>
                 /\ pc' = "awaitGet"
                 /\ result' = result
       ELSE Return("Success") /\ calls' = calls

\* mutant: the test of canBeMerged is negated
afterGet_Negated(g) ==
    /\ gpr' = Some(g)
    /\ IF ~canBeMerged(g)
       THEN IF IsNone(Val(pr).labels)
            THEN /\ calls' = Settle(calls, "ok")
                 /\ Return("Failure")
            ELSE /\ calls' = Append(Settle(calls, "ok"), Call("merge", mergeMethod(Val(pr))))
                 /\ pc' = "awaitMerge"
                 /\ result' = result
       ELSE /\ calls' = Settle(calls, "ok")
            /\ Return("Success")

\* mutant: the comment is posted after the if/else, also when nothing was merged
afterGet_CommentOutsideIf(g) ==
    /\ gpr' = Some(g)
    /\ IF canBeMerged(g)
       THEN IF IsNone(Val(pr).labels)
            THEN /\ calls' = Settle(calls, "ok")
                 /\ Return("Failure")
            ELSE /\ calls' = Append(Settle(calls, "ok"), Call("merge", mergeMethod(Val(pr))))
                 /\ pc' = "awaitMerge"
                 /\ result' = result
       ELSE /\ calls' = Append(Settle(calls, "ok"), Call("comment", commentBody(Val(pr))))
            /\ pc' = "awaitComment"
            /\ result' = result

\* continuation after `await api.pullrequests.get(...)` answered g
afterGet(g) ==
    /\ gpr' = Some(g)
    /\ IF canBeMerged(g)
       THEN IF IsNone(Val(pr).labels)
            THEN \* mergeMethod(pr): pr.labels.find on an absent value throws
                 /\ calls' = Settle(calls, "ok")
                 /\ Return("Failure")
            ELSE /\ calls' = Append(Settle(calls, "ok"), Call("merge", mergeMethod(Val(pr))))
                 /\ pc' = "awaitMerge"
                 /\ result' = result
       ELSE \* logger.info("GitHub returned PR as not mergeable")
            /\ calls' = Settle(calls, "ok")
            /\ Return("Success")

\* continuation after `await api.pullrequests.merge(...)` succeeded
afterMerge ==
    /\ calls' = Append(Settle(calls, "ok"), Call("comment", commentBody(Val(pr))))
    /\ pc' = "awaitComment"
    /\ UNCHANGED <<gpr, result>>

\* continuation after `await api.issue_tracker.createComment(...)` succeeded
afterComment ==
    /\ calls' = Settle(calls, "ok")
    /\ Return("Success")
    /\ gpr' = gpr

\* the provider rejects a merge of an already-merged pull request
mergeAccepted == ~merged

\* the awaited provider call is fulfilled
Resolve ==
    /\ pc \in {"awaitGet", "awaitMerge", "awaitComment"}
    /\ pc = "awaitMerge" => mergeAccepted
    /\ merged' = (merged \/ pc = "awaitMerge")
    /\ UNCHANGED <<pr, susp>>
    /\ CASE pc = "awaitGet" -> \E m \in BOOLEAN : afterGet([mergeable |-> m])
         [] pc = "awaitMerge" -> afterMerge
         [] pc = "awaitComment" -> afterComment

\* mutant: the rejection is caught and Success returned
Reject_Swallowed ==
    /\ pc \in {"awaitGet", "awaitMerge", "awaitComment"}
    /\ calls' = Settle(calls, "error")
    /\ Return("Success")
    /\ UNCHANGED <<pr, gpr, susp, merged>>

\* mutant: the failed call is issued again, until the evaluation made four calls
Reject_Retry ==
    /\ pc \in {"awaitGet", "awaitMerge", "awaitComment"}
    /\ IF Len(calls) < 4
       THEN /\ calls' = Append(Settle(calls, "error"),
                              Call(calls[Len(calls)].op, calls[Len(calls)].arg))
            /\ UNCHANGED <<pc, result>>
       ELSE /\ calls' = Settle(calls, "error")
            /\ Return("Failure")
    /\ UNCHANGED <<pr, gpr, susp, merged>>

\* the awaited provider call fails: the rejection propagates out of executeAutoMerge
Reject ==
    /\ pc \in {"awaitGet", "awaitMerge", "awaitComment"}
    /\ calls' = Settle(calls, "error")
    /\ Return("Failure")
    /\ UNCHANGED <<pr, gpr, susp, merged>>

\* an event adapter hands a fresh snapshot (or null) to executeAutoMerge
HandleEvent ==
    /\ pc = "idle"
    /\ CurId = 1
    /\ \E p \in {None} \cup {Some(q) : q \in PullRequests} : executeAutoMerge(p)
    /\ UNCHANGED <<susp, merged>>

Next ==
    \/ HandleEvent
    \/ Resolve
    \/ Reject

Spec == Init /\ [][Next]_vars

\* as HandleEvent, for the snapshots of CoreSnapshots
HandleCoreEvent ==
    /\ pc = "idle"
    /\ CurId = 1
    /\ \E p \in {None} \cup {Some(q) : q \in CoreSnapshots} : executeAutoMerge(p)
    /\ UNCHANGED <<susp, merged>>

NextCore ==
    \/ HandleCoreEvent
    \/ Resolve
    \/ Reject

\* every awaited provider call returns or fails (the client is built with a timeout)
SpecFair == Init /\ [][NextCore]_vars /\ WF_vars(Resolve \/ Reject)

\* a second event for the same pull request: executeAutoMerge runs again on the snapshot
HandleSecondEvent ==
    /\ pc = "idle"
    /\ CurId = 2
    /\ executeAutoMerge(pr)
    /\ UNCHANGED <<susp, merged>>

\* the running evaluation and the other one change places
Swap ==
    /\ susp' = [id |-> CurId, pc |-> pc, calls |-> calls, gpr |-> gpr, result |-> result]
    /\ pc' = susp.pc
    /\ calls' = susp.calls
    /\ gpr' = susp.gpr
    /\ result' = susp.result
    /\ UNCHANGED <<pr, merged>>

\* the event framework runs the two evaluations with no mutual exclusion: between
\* two steps of one evaluation the other may run
Switch ==
    /\ pc # "idle"
    /\ susp.pc # "done"
    /\ Swap

\* the second evaluation starts when the first has ended
StartSecond ==
    /\ pc = "done"
    /\ CurId = 1
    /\ Swap

NextConc ==
    \/ HandleCoreEvent
    \/ HandleSecondEvent
    \/ Resolve
    \/ Reject
    \/ Switch

SpecConc == Init /\ [][NextConc]_vars

NextSeq ==
    \/ HandleCoreEvent
    \/ HandleSecondEvent
    \/ Resolve
    \/ Reject
    \/ StartSecond

SpecSeq == Init /\ [][NextSeq]_vars

----------------------------------------------------------------------------
(* Vocabulary of the properties *)

Issued(op) == \E i \in DOMAIN calls : calls[i].op = op
CallFailed == \E i \in DOMAIN calls : calls[i].outcome = "error"
LabelNames(p) == IF IsSome(p.labels) THEN {Val(p.labels)[i].name : i \in DOMAIN Val(p.labels)} ELSE {}
ReviewsOf(p) == IF IsSome(p.reviews) THEN Val(p.reviews) ELSE <<>>
BuildsOf(p) ==
    IF IsSome(p.head) /\ IsSome(Val(p.head).builds) THEN Val(Val(p.head).builds) ELSE <<>>
TaggedApprove(p) == isPrTagged(p, AutoMergeLabel, AutoMergeTag)
TaggedCheckSuccess(p) == isPrTagged(p, AutoMergeCheckSuccessLabel, AutoMergeCheckSuccessTag)
AllApproved(p) ==
    Len(ReviewsOf(p)) >= 1 /\ \A i \in DOMAIN ReviewsOf(p) : ReviewsOf(p)[i].state = "approved"
BuildReady(p) ==
    Len(BuildsOf(p)) >= 1 /\ \A i \in DOMAIN BuildsOf(p) : BuildsOf(p)[i].status = "passed"
Eligible(p) ==
    /\ TaggedApprove(p) \/ TaggedCheckSuccess(p)
    /\ BuildReady(p)
    /\ TaggedApprove(p) => AllApproved(p)
NoMethodLabel(p) == \A n \in LabelNames(p) : ~startsWith(n, AutoMergeMethodLabel)
\* the evaluation ended after a mergeable answer and without a provider error
EndedMergeable ==
    /\ pc = "done"
    /\ IsSome(gpr) /\ Val(gpr).mergeable
    /\ ~CallFailed

----------------------------------------------------------------------------
(* C1: scenario A. For a pull request labelled auto-merge:on-approve, with   *)
(* exactly one review, approved, and exactly one build, passed, and a        *)
(* provider that reports it mergeable, the evaluation issues the merge call  *)
(* with the merge-commit strategy and then posts a comment containing        *)
(* "1 successful check" and "1 approved review".                             *)

ScenarioA(p) ==
    /\ AutoMergeLabel \in LabelNames(p)
    /\ NoMethodLabel(p)
    /\ Len(ReviewsOf(p)) = 1 /\ ReviewsOf(p)[1].state = "approved"
    /\ Len(BuildsOf(p)) = 1 /\ BuildsOf(p)[1].status = "passed"

C1_ScenarioA_MergedAndCommented ==
    (IsSome(pr) /\ ScenarioA(Val(pr)) /\ EndedMergeable) =>
        \E i, j \in DOMAIN calls :
            /\ i < j
            /\ calls[i].op = "merge"
            /\ calls[i].arg \in {"merge-commit", "merge_commit"}
            /\ calls[j].op = "comment"
            /\ includes(calls[j].arg, "1 successful check")
            /\ includes(calls[j].arg, "1 approved review")

----------------------------------------------------------------------------
(* C2: scenario B. For a pull request tagged only with the check-success     *)
(* marker, with zero reviews and two builds, both passed, and a provider     *)
(* that reports it mergeable, the evaluation issues the merge call.          *)

ScenarioB(p) ==
    /\ TaggedCheckSuccess(p)
    /\ ~TaggedApprove(p)
    /\ Len(ReviewsOf(p)) = 0
    /\ Len(BuildsOf(p)) = 2 /\ BuildReady(p)

C2_ScenarioB_Merged ==
    (IsSome(pr) /\ ScenarioB(Val(pr)) /\ EndedMergeable) => Issued("merge")

----------------------------------------------------------------------------
(* C3: the mergeability query is issued if and only if the snapshot is       *)
(* eligible: tagged for either marker, build-ready, and with all reviews     *)
(* approved (at least one) when tagged for the approval marker. A snapshot   *)
(* tagged with neither marker causes no provider call at all.                *)

----------------------------------------------------------------------------
(* C4: approval gate. For a pull request tagged for the approval marker      *)
(* whose reviews are absent or empty, or contain a review that is not        *)
(* approved, the evaluation returns Success and issues no provider call,     *)
(* whatever its builds and other tags.                                       *)

ReviewsBlock(p) ==
    \/ IsNone(p.reviews)
    \/ Val(p.reviews) = <<>>
    \/ \E i \in DOMAIN Val(p.reviews) : Val(p.reviews)[i].state # "approved"

----------------------------------------------------------------------------
(* C5: build gate. For a pull request without build entries (absent head,    *)
(* absent builds or empty builds) or with a build that is not passed, the    *)
(* evaluation returns Success and issues no provider call, whatever its      *)
(* tags and reviews.                                                         *)

BuildsBlock(p) ==
    \/ IsNone(p.head)
    \/ IsNone(Val(p.head).builds)
    \/ Val(Val(p.head).builds) = <<>>
    \/ \E i \in DOMAIN Val(Val(p.head).builds) : Val(Val(p.head).builds)[i].status # "passed"

C5_BuildGate ==
    (pc # "idle" /\ IsSome(pr) /\ BuildsBlock(Val(pr))) =>
        /\ pc = "done"
        /\ result = "Success"
        /\ calls = <<>>

\* evaluated: tagged, reviews approved, one of two builds failed
C5_Witness ==
    /\ pc = "done"
    /\ IsSome(pr) /\ TaggedApprove(Val(pr)) /\ AllApproved(Val(pr))
    /\ Len(BuildsOf(Val(pr))) = 2
    /\ BuildsOf(Val(pr))[1].status = "passed"
    /\ BuildsOf(Val(pr))[2].status = "failed"

----------------------------------------------------------------------------
(* C6: tagging. As claimed, isPrTagged(pr, markerLabel, markerTag) is true   *)
(* if and only if the marker tag occurs verbatim in the title, the body, a   *)
(* top-level comment body, a review-comment body (comments nested under a    *)
(* review) or a commit message, or some label name equals the marker label.  *)
(* As amended (C6_TaggedIffSurfaceOrLabel), the review-comment bodies are    *)
(* not among the scanned texts. Absent fields and collections never match.   *)

\* t occurs verbatim in the text s
Occurs(t, s) == \E i \in 1..(Len(s) - Len(t) + 1) : SubSeq(s, i, i + Len(t) - 1) = t

PresentTexts(opts) == {Val(o) : o \in {x \in opts : IsSome(x)}}

\* the present texts of title, body, top-level comments and commit messages
ScannedTexts(p) ==
    PresentTexts({p.title, p.body})
      \cup (IF IsSome(p.comments)
            THEN PresentTexts({Val(p.comments)[i].body : i \in DOMAIN Val(p.comments)})
            ELSE {})
      \cup (IF IsSome(p.commits)
            THEN PresentTexts({Val(p.commits)[i].message : i \in DOMAIN Val(p.commits)})
            ELSE {})

\* the present bodies of the comments nested under the reviews
ReviewCommentTexts(p) ==
    UNION { IF IsSome(ReviewsOf(p)[i].comments)
            THEN PresentTexts({Val(ReviewsOf(p)[i].comments)[k].body :
                                  k \in DOMAIN Val(ReviewsOf(p)[i].comments)})
            ELSE {} : i \in DOMAIN ReviewsOf(p) }

Markers ==
    { <<AutoMergeLabel, AutoMergeTag>>,
      <<AutoMergeCheckSuccessLabel, AutoMergeCheckSuccessTag>> }

C6_TaggedIffAnySurfaceOrLabel ==
    IsSome(pr) =>
        \A m \in Markers :
            isPrTagged(Val(pr), m[1], m[2]) <=>
                \/ \E s \in ScannedTexts(Val(pr)) \cup ReviewCommentTexts(Val(pr)) :
                      Occurs(m[2], s)
                \/ m[1] \in LabelNames(Val(pr))

C6_TaggedIffSurfaceOrLabel ==
    IsSome(pr) =>
        \A m \in Markers :
            isPrTagged(Val(pr), m[1], m[2]) <=>
                \/ \E s \in ScannedTexts(Val(pr)) : Occurs(m[2], s)
                \/ m[1] \in LabelNames(Val(pr))

\* evaluated: the check-success tag stands in a commit message only, and the
\* approval tag in a review comment only
C6_Witness ==
    /\ pc = "done"
    /\ IsSome(pr)
    /\ LabelNames(Val(pr)) = {"bug"}
    /\ IsNone(Val(pr).title) /\ IsNone(Val(pr).body) /\ IsNone(Val(pr).comments)
    /\ IsSome(Val(pr).commits)
    /\ TaggedCheckSuccess(Val(pr))
    /\ \E s \in ReviewCommentTexts(Val(pr)) : Occurs(AutoMergeTag, s)
    /\ ~TaggedApprove(Val(pr))

----------------------------------------------------------------------------
(* C7: strategy selection. mergeMethod returns squash for the label          *)
(* auto-merge-method:squash, the default merge-commit when no label starts   *)
(* with auto-merge-method:, the default when the lower-cased suffix is not   *)
(* in {merge-commit, fast-forward, squash}, and the lower-cased suffix       *)
(* itself when it is in that set.                                            *)

KnownStrategies == {"merge-commit", "fast-forward", "squash"}
IsDefaultStrategy(m) == m \in {"merge-commit", "merge_commit"}
MethodLabelNames(p) == {n \in LabelNames(p) : startsWith(n, AutoMergeMethodLabel)}
\* the text after the separator of a strategy label, lower-cased
Suffix(n) == toLowerCase(SubSeq(n, Len(AutoMergeMethodLabel) + 1, Len(n)))

C7_StrategySelection ==
    (IsSome(pr) /\ IsSome(Val(pr).labels)) =>
        LET p == Val(pr) IN
        /\ MethodLabelNames(p) = {} => IsDefaultStrategy(mergeMethod(p))
        /\ \A n \in MethodLabelNames(p) :
              MethodLabelNames(p) = {n} =>
                 IF Suffix(n) \in KnownStrategies
                 THEN mergeMethod(p) = Suffix(n)
                 ELSE IsDefaultStrategy(mergeMethod(p))

----------------------------------------------------------------------------
(* C8: scenario C. When the provider reports an eligible pull request not    *)
(* mergeable, no merge call is issued, no comment is posted and              *)
(* executeAutoMerge returns Success.                                         *)

C8_NotMergeableIsSuccess ==
    (IsSome(gpr) /\ ~Val(gpr).mergeable) =>
        /\ ~Issued("merge")
        /\ ~Issued("comment")
        /\ pc = "done"
        /\ result = "Success"

\* an eligible snapshot was answered not mergeable
C8_Witness ==
    /\ IsSome(pr) /\ Eligible(Val(pr))
    /\ IsSome(gpr) /\ ~Val(gpr).mergeable
    /\ pc = "done"
    /\ calls = <<[op |-> "get", arg |-> "", outcome |-> "ok"]>>

----------------------------------------------------------------------------
(* C9: provider failure. When a provider call fails, executeAutoMerge ends   *)
(* in failure, the failed call is the last call of the evaluation (nothing   *)
(* is issued after it, in particular no comment after a failed merge), and   *)
(* no call is issued twice (no retry).                                       *)

C9_ProviderFailurePropagates ==
    /\ CallFailed =>
          /\ pc = "done"
          /\ result = "Failure"
          /\ \A i \in DOMAIN calls : calls[i].outcome = "error" => i = Len(calls)
    /\ \A i, j \in DOMAIN calls : calls[i].op = calls[j].op => i = j

\* the mergeability query of an eligible snapshot failed
C9_Witness ==
    /\ IsSome(pr) /\ Eligible(Val(pr))
    /\ calls = <<[op |-> "get", arg |-> "", outcome |-> "error"]>>
    /\ result = "Failure"

----------------------------------------------------------------------------
(* C10: call ordering. The provider calls of one evaluation are issued one   *)
(* at a time in the order mergeability query, merge, comment; a merge call   *)
(* is issued only after the mergeability check answered true, and a comment  *)
(* only after the merge call succeeded.                                      *)

ProviderOrder == <<"get", "merge", "comment">>

C10_CallOrdering ==
    /\ Len(calls) <= Len(ProviderOrder)
    /\ \A i \in DOMAIN calls :
          /\ calls[i].op = ProviderOrder[i]
          /\ i < Len(calls) => calls[i].outcome = "ok"
    /\ Issued("merge") => /\ IsSome(gpr)
                          /\ Val(gpr).mergeable
                          /\ canBeMerged(Val(gpr))
    /\ Issued("comment") => /\ Issued("merge")
                            /\ calls[2].outcome = "ok"

\* the mergeability query was answered mergeable and the evaluation ended
C10_Witness ==
    /\ pc = "done"
    /\ IsSome(gpr) /\ Val(gpr).mergeable
    /\ Len(calls) = 1 /\ calls[1].op = "get" /\ calls[1].outcome = "ok"

----------------------------------------------------------------------------
(* C14: tag detection is case-sensitive. A pull request whose only           *)
(* candidate text is the title [AUTO-MERGE:ON-APPROVE] is not tagged for     *)
(* [auto-merge:on-approve], is not auto-merge-enabled, and its evaluation    *)
(* issues no provider call.                                                  *)

UpperCaseTitleOnly(p) ==
    /\ p.title = Some("[AUTO-MERGE:ON-APPROVE]")
    /\ IsNone(p.body) /\ IsNone(p.comments) /\ IsNone(p.commits)
    /\ LabelNames(p) \cap {AutoMergeLabel, AutoMergeCheckSuccessLabel} = {}

C14_TagIsCaseSensitive ==
    (pc # "idle" /\ IsSome(pr) /\ UpperCaseTitleOnly(Val(pr))) =>
        /\ ~isTagged(Val(pr).title, AutoMergeTag)
        /\ ~TaggedApprove(Val(pr))
        /\ ~isPrAutoMergeEnabled(Val(pr))
        /\ pc = "done"
        /\ calls = <<>>

\* evaluated: upper-case title only, reviews approved and builds passed
C14_Witness ==
    /\ pc = "done"
    /\ IsSome(pr) /\ UpperCaseTitleOnly(Val(pr))
    /\ AllApproved(Val(pr)) /\ BuildReady(Val(pr))
    /\ calls = <<>>

----------------------------------------------------------------------------
(* C15: first-found strategy label. When several labels start with           *)
(* auto-merge-method:, mergeMethod answers as if the first of them were the  *)
(* only label; when the suffix of that first label is not a strategy name    *)
(* the answer is the default, whatever the later labels name.                *)

MethodLabelIndexes(p) ==
    {i \in DOMAIN Val(p.labels) : startsWith(Val(p.labels)[i].name, AutoMergeMethodLabel)}
FirstMethodLabel(p) ==
    Val(p.labels)[CHOOSE i \in MethodLabelIndexes(p) : \A j \in MethodLabelIndexes(p) : i <= j]
StrategyNames == KnownStrategies \cup {AutoMergeMethods[i] : i \in DOMAIN AutoMergeMethods}

----------------------------------------------------------------------------
(* C16: absent input. Called with a null pull request, executeAutoMerge      *)
(* returns Success and issues no provider call.                              *)

C16_NullIsNoOp ==
    (pc # "idle" /\ IsNone(pr)) =>
        /\ pc = "done"
        /\ result = "Success"
        /\ calls = <<>>

\* executeAutoMerge(null) returned
C16_Witness ==
    /\ pc = "done"
    /\ IsNone(pr)
    /\ result = "Success"

----------------------------------------------------------------------------
(* C17: in the code as written no merge call and no comment is ever issued:  *)
(* canBeMerged answers false whatever the provider reports, and every        *)
(* evaluation that got the provider's answer has ended with Success.         *)

C17_MergeUnreachable ==
    /\ ~Issued("merge")
    /\ ~Issued("comment")
    /\ pc \notin {"awaitMerge", "awaitComment"}
    /\ IsSome(gpr) => /\ ~canBeMerged(Val(gpr))
                      /\ pc = "done"
                      /\ result = "Success"

\* scenario A, answered mergeable by the provider, ended without a merge
C17_Witness ==
    /\ IsSome(pr) /\ ScenarioA(Val(pr))
    /\ EndedMergeable
    /\ result = "Success"
    /\ Len(calls) = 1

----------------------------------------------------------------------------
(* C18: the merge_strategy computed by mergeMethod is, for every label set,  *)
(* one of the provider's values merge_commit, fast_forward, squash.          *)

ProviderStrategies == {"merge_commit", "fast_forward", "squash"}

C18_StrategyIsProviderValue ==
    (IsSome(pr) /\ IsSome(Val(pr).labels)) => mergeMethod(Val(pr)) \in ProviderStrategies

----------------------------------------------------------------------------
(* C19: the check-success marker does not bypass the approval gate. For a    *)
(* pull request tagged for both markers whose builds all passed, the         *)
(* provider is contacted only if there is a review and all reviews are       *)
(* approved; otherwise the evaluation is a no-op.                            *)

----------------------------------------------------------------------------
(* C13: bounded, terminating evaluation. Provided every provider call        *)
(* returns or fails, every evaluation reaches a terminal outcome; it issues  *)
(* at most three provider calls, at most one of each kind, and its position  *)
(* only moves forward.                                                       *)

PcRank(c) ==
    CASE c = "idle" -> 0 [] c = "awaitGet" -> 1 [] c = "awaitMerge" -> 2
      [] c = "awaitComment" -> 3 [] c = "done" -> 4

CallsBounded ==
    /\ Len(calls) <= Len(ProviderOrder)
    /\ \A i, j \in DOMAIN calls : calls[i].op = calls[j].op => i = j

C13_BoundedTermination ==
    /\ (pc # "idle") ~> (pc = "done")
    /\ []CallsBounded
    /\ [][PcRank(pc') > PcRank(pc)]_vars

\* scenario B was queried, answered, and ended
C13_Witness ==
    /\ pc = "done"
    /\ IsSome(pr) /\ ScenarioB(Val(pr))
    /\ IsSome(gpr)
    /\ Len(calls) = 1 /\ calls[1].outcome = "ok"

----------------------------------------------------------------------------
(* C11: at-most-once merge under concurrency. With two evaluations of the    *)
(* same pull request interleaved arbitrarily, against a provider that        *)
(* rejects a merge of an already-merged pull request, at most one merge      *)
(* succeeds and at most one comment is posted across both evaluations.       *)

AllCalls == calls \o susp.calls
MergesSucceeded ==
    Cardinality({i \in DOMAIN AllCalls :
                    AllCalls[i].op = "merge" /\ AllCalls[i].outcome = "ok"})
CommentsPosted == Cardinality({i \in DOMAIN AllCalls : AllCalls[i].op = "comment"})

----------------------------------------------------------------------------
(* C12: idempotence of sequential re-evaluation. When the same eligible      *)
(* snapshot is evaluated a second time after the first evaluation ended and  *)
(* the mergeability check answers false, the second evaluation issues no     *)
(* merge call and posts no comment; both together post at most one comment.  *)

C12_SecondEvaluationSilent ==
    (CurId = 2 /\ IsSome(gpr) /\ ~Val(gpr).mergeable) =>
        /\ ~Issued("merge")
        /\ ~Issued("comment")
        /\ CommentsPosted <= 1

\* the first evaluation of an eligible snapshot was answered mergeable and ended,
\* then the second was answered not mergeable and ended
C12_Witness ==
    /\ IsSome(pr) /\ Eligible(Val(pr))
    /\ CurId = 2
    /\ pc = "done" /\ IsSome(gpr) /\ ~Val(gpr).mergeable
    /\ susp.pc = "done" /\ IsSome(susp.gpr) /\ Val(susp.gpr).mergeable

====
